---- MODULE Spec2Model ----
(***************************************************************************)
(* Model of the fuzzy lookup service (performFuzzyLookup and its helpers   *)
(* getLevenshteinDistance and calculateSimilarity).                        *)
(*                                                                         *)
(* Strings are sequences of one-character strings.  Row values are tagged  *)
(* values (text, number, boolean, null/undefined).  JavaScript numbers are *)
(* IEEE-754 doubles: the model keeps a double as an exact binary fixed     *)
(* point value [neg, int, frac] (frac = the bits after the binary point,   *)
(* most significant first, no trailing zero) and rounds every arithmetic   *)
(* result to 53 significant bits, round-half-to-even, as the hardware does.*)
(***************************************************************************)
EXTENDS Integers, Sequences, FiniteSets, TLC

\* ------------------------------------------------------------------ bounds

\* Largest number of rows of a batch.
MaxRows == 3

\* Longest string of the boundary batches (one record whose customer and
\* reference differ in d of L characters).
MaxBoundaryLen == 10

\* Longest string of the string-function specification SpecSim.
MaxStrLen == 3

\* Largest number of rows of a file the application loads.
MaxFileRows == 7

\* ----------------------------------------------------------------- strings

Chars == {"a", "b", "A"}

\* String.prototype.toLowerCase, per character.
LowerChar(c) ==
    CASE c = "A" -> "a"
      [] c = "B" -> "b"
      [] OTHER -> c

ToLowerCase(s) == [k \in 1..Len(s) |-> LowerChar(s[k])]

IsSpace(c) == c = " "

RECURSIVE TrimStart(_)
TrimStart(s) ==
    IF Len(s) > 0 /\ IsSpace(s[1]) THEN TrimStart(Tail(s)) ELSE s

RECURSIVE TrimEnd(_)
TrimEnd(s) ==
    IF Len(s) > 0 /\ IsSpace(s[Len(s)]) THEN TrimEnd(SubSeq(s, 1, Len(s) - 1)) ELSE s

\* String.prototype.trim
Trim(s) == TrimEnd(TrimStart(s))

\* ----------------------------------------------------------------- doubles

RECURSIVE StripZeros(_)
StripZeros(bits) ==
    IF Len(bits) > 0 /\ bits[Len(bits)] = 0
    THEN StripZeros(SubSeq(bits, 1, Len(bits) - 1))
    ELSE bits

Dbl(neg, int, frac) == [neg |-> neg, int |-> int, frac |-> StripZeros(frac)]

DblOfNat(n) == Dbl(FALSE, n, <<>>)

\* The initial value of maxSimilarity.
MinusOne == Dbl(TRUE, 1, <<>>)

RECURSIVE BitLen(_)
BitLen(n) == IF n = 0 THEN 0 ELSE 1 + BitLen(n \div 2)

RECURSIVE LeadingZeros(_)
LeadingZeros(bits) ==
    IF Len(bits) > 0 /\ bits[1] = 0 THEN 1 + LeadingZeros(Tail(bits)) ELSE 0

\* Number of fraction bits a double of this magnitude keeps: 53 significant
\* bits, counted from the leading one bit.
Precision == 53

KeptFracBits(int, frac) ==
    IF int > 0 THEN Precision - BitLen(int)
    ELSE LeadingZeros(frac) + Precision

\* bits + 1 in the last place: <<bits, carry out>>.  k runs from the last
\* bit to the first, carry is the carry into bit k.
RECURSIVE IncFrom(_, _, _)
IncFrom(bits, k, carry) ==
    IF k = 0 \/ carry = 0 THEN <<bits, carry>>
    ELSE IF bits[k] = 0 THEN IncFrom([bits EXCEPT ![k] = 1], k - 1, 0)
    ELSE IncFrom([bits EXCEPT ![k] = 0], k - 1, 1)

IncBits(bits) == IncFrom(bits, Len(bits), 1)

HasOne(bits) == \E k \in 1..Len(bits) : bits[k] = 1

\* Round the exact value int.frac (plus, when sticky, a non-zero remainder
\* below the last bit of frac) to the nearest double, ties to even.
RoundNearestEven(neg, int, frac, sticky) ==
    LET k     == KeptFracBits(int, frac)
        n     == Len(frac)
    IN  IF n <= k THEN Dbl(neg, int, frac)
        ELSE LET kept  == SubSeq(frac, 1, k)
                 guard == frac[k + 1]
                 rest  == sticky \/ HasOne(SubSeq(frac, k + 2, n))
                 lsb   == IF k = 0 THEN int % 2 ELSE frac[k]
                 up    == guard = 1 /\ (rest \/ lsb = 1)
                 inc   == IncBits(kept)
             IN  IF up THEN Dbl(neg, int + inc[2], inc[1])
                 ELSE Dbl(neg, int, kept)

\* Long division: the bits of r / b after the binary point, until the
\* remainder is zero or `want` more bits have been produced after the first
\* significant one: <<bits, remainder>>.
RECURSIVE DivBits(_, _, _, _, _)
DivBits(r, b, bits, seen, want) ==
    IF r = 0 \/ want = 0 THEN <<bits, r>>
    ELSE LET bit  == IF 2 * r >= b THEN 1 ELSE 0
             r2   == 2 * r - bit * b
             sig  == seen \/ bit = 1
         IN  DivBits(r2, b, Append(bits, bit), sig, IF sig THEN want - 1 ELSE want)

\* a / b for naturals a, b (b > 0): the correctly rounded quotient.
FDiv(a, b) ==
    LET int == a \div b
        res == DivBits(a % b, b, <<>>, int > 0, Precision + 1 - BitLen(int))
    IN  RoundNearestEven(FALSE, int, res[1], res[2] # 0)

\* 1.0 - q for a double 0 <= q <= 1.
OneMinus(q) ==
    IF q.int >= 1 THEN DblOfNat(0)
    ELSE IF Len(q.frac) = 0 THEN DblOfNat(1)
    ELSE LET n == Len(q.frac)
             c == [k \in 1..n |-> IF k = n THEN 1 ELSE 1 - q.frac[k]]
         IN  RoundNearestEven(FALSE, 0, c, FALSE)

\* bits * m, as <<bits, carry into the integer part>>.  k runs from the last
\* bit to the first, carry is the carry into bit k.
RECURSIVE MulFrom(_, _, _, _)
MulFrom(bits, m, k, carry) ==
    IF k = 0 THEN <<bits, carry>>
    ELSE MulFrom([bits EXCEPT ![k] = (bits[k] * m + carry) % 2], m, k - 1,
                 (bits[k] * m + carry) \div 2)

MulBits(bits, m) == MulFrom(bits, m, Len(bits), 0)

\* The exact product x * m (m a small natural), not yet rounded.
ExactTimes(x, m) ==
    LET r == MulBits(x.frac, m)
    IN  [neg |-> x.neg, int |-> x.int * m + r[2], frac |-> StripZeros(r[1])]

\* x * 100
Times100(x) ==
    LET p == ExactTimes(x, 100)
    IN  RoundNearestEven(p.neg, p.int, p.frac, FALSE)

\* x > y
RECURSIVE BitsGt(_, _)
BitsGt(f, g) ==
    IF Len(f) = 0 THEN FALSE
    ELSE IF Len(g) = 0 THEN HasOne(f)
    ELSE IF f[1] # g[1] THEN f[1] > g[1]
    ELSE BitsGt(Tail(f), Tail(g))

MagGt(x, y) == x.int > y.int \/ (x.int = y.int /\ BitsGt(x.frac, y.frac))

IsZero(x) == x.int = 0 /\ Len(x.frac) = 0

Gt(x, y) ==
    IF IsZero(x) /\ IsZero(y) THEN FALSE
    ELSE IF x.neg /\ ~y.neg THEN FALSE
    ELSE IF ~x.neg /\ y.neg THEN TRUE
    ELSE IF x.neg THEN MagGt(y, x)
    ELSE MagGt(x, y)

\* Math.round of a non-negative double: floor(x + 0.5).
MathRound(x) == x.int + (IF Len(x.frac) > 0 THEN x.frac[1] ELSE 0)

\* parseFloat(x.toFixed(2)), kept as the integer number of hundredths: the
\* integer n for which n / 100 is closest to x, the larger n on a tie; a
\* negative x gives the negation of the result for -x.
ToFixed2(x) ==
    LET p == ExactTimes(x, 100)
        n == p.int + (IF Len(p.frac) > 0 THEN p.frac[1] ELSE 0)
    IN  IF x.neg THEN 0 - n ELSE n

\* -------------------------------------------------------------- row values

\* A value of a row (RowData is [key: string]: any): a text, a number, a
\* boolean, or none (null, undefined, a missing key).
Text(s) == [kind |-> "text", text |-> s, num |-> 0, bool |-> FALSE]
Num(n)  == [kind |-> "number", text |-> <<>>, num |-> n, bool |-> FALSE]
Bool(b) == [kind |-> "boolean", text |-> <<>>, num |-> 0, bool |-> b]
Null    == [kind |-> "null", text |-> <<>>, num |-> 0, bool |-> FALSE]

DigitChar(d) ==
    CASE d = 0 -> "0" [] d = 1 -> "1" [] d = 2 -> "2" [] d = 3 -> "3"
      [] d = 4 -> "4" [] d = 5 -> "5" [] d = 6 -> "6" [] d = 7 -> "7"
      [] d = 8 -> "8" [] OTHER -> "9"

\* The decimal digits of a natural number.
RECURSIVE Digits(_)
Digits(n) ==
    IF n < 10 THEN <<DigitChar(n)>>
    ELSE Append(Digits(n \div 10), DigitChar(n % 10))

\* JavaScript's truthiness: v || '' keeps v unless v is falsy.
Falsy(v) ==
    \/ v.kind = "null"
    \/ v.kind = "number" /\ v.num = 0
    \/ v.kind = "boolean" /\ ~v.bool
    \/ v.kind = "text" /\ Len(v.text) = 0

\* String(v)
JsString(v) ==
    CASE v.kind = "text"    -> v.text
      [] v.kind = "number"  -> Digits(v.num)
      [] v.kind = "boolean" -> IF v.bool THEN <<"t", "r", "u", "e">>
                               ELSE <<"f", "a", "l", "s", "e">>
      [] OTHER              -> <<"n", "u", "l", "l">>

\* String(v || '').trim()
CoerceField(v) == Trim(IF Falsy(v) THEN <<>> ELSE JsString(v))

\* ------------------------------------------------------------ edit distance

Min3(a, b, c) ==
    IF a <= b /\ a <= c THEN a ELSE IF b <= c THEN b ELSE c

\* The inner loop over j: row holds matrix[i][0 .. j-1], prev is matrix[i-1].
RECURSIVE LevRow(_, _, _, _, _)
LevRow(s1, s2, i, prev, row) ==
    LET j == Len(row) IN
    IF j > Len(s2) THEN row
    ELSE LET cost == IF s1[i] = s2[j] THEN 0 ELSE 1
         IN  LevRow(s1, s2, i, prev,
                    Append(row, Min3(prev[j + 1] + 1, row[j] + 1, prev[j] + cost)))

\* The outer loop over i: prev is matrix[i-1].
RECURSIVE LevRows(_, _, _, _)
LevRows(s1, s2, i, prev) ==
    IF i > Len(s1) THEN prev[Len(s2) + 1]
    ELSE LevRows(s1, s2, i + 1, LevRow(s1, s2, i, prev, <<i>>))

getLevenshteinDistance(s1, s2) ==
    LevRows(s1, s2, 1, [j \in 1..(Len(s2) + 1) |-> j - 1])

Max(a, b) == IF a >= b THEN a ELSE b

\* calculateSimilarity without the lower-casing of its arguments.
calculateSimilarityCaseSensitive(s1, s2) ==
    LET distance  == getLevenshteinDistance(s1, s2)
        maxLength == Max(Len(s1), Len(s2))
    IN  IF maxLength = 0 THEN DblOfNat(1)
        ELSE OneMinus(FDiv(distance, maxLength))

calculateSimilarity(s1, s2) ==
    LET distance  == getLevenshteinDistance(ToLowerCase(s1), ToLowerCase(s2))
        maxLength == Max(Len(s1), Len(s2))
    IN  IF maxLength = 0 THEN DblOfNat(1)
        ELSE OneMinus(FDiv(distance, maxLength))

\* --------------------------------------------------------- performFuzzyLookup

\* rplValues: the coerced, trimmed reference values that are not empty.
RECURSIVE RplValuesOf(_)
RplValuesOf(rows) ==
    IF Len(rows) = 0 THEN <<>>
    ELSE LET v == CoerceField(rows[1].rpl)
         IN  IF v # <<>> THEN <<v>> \o RplValuesOf(Tail(rows))
             ELSE RplValuesOf(Tail(rows))

InSeq(x, seq) == \E k \in 1..Len(seq) : seq[k] = x

\* Array.from(new Set(values)): a Set keeps insertion order and drops a value
\* that is already in it.
RECURSIVE UniqueFrom(_, _)
UniqueFrom(values, acc) ==
    IF Len(values) = 0 THEN acc
    ELSE UniqueFrom(Tail(values),
                    IF InSeq(values[1], acc) THEN acc ELSE Append(acc, values[1]))

\* A deduplication that keeps the last occurrence of a value, not the first.
RECURSIVE UniqueKeepLastFrom(_, _)
UniqueKeepLastFrom(values, acc) ==
    IF Len(values) = 0 THEN acc
    ELSE UniqueKeepLastFrom(Tail(values),
                            IF InSeq(values[1], Tail(values)) THEN acc
                            ELSE Append(acc, values[1]))

UniqueOfKeepLast(values) == UniqueKeepLastFrom(values, <<>>)

UniqueOf(values) == UniqueFrom(values, <<>>)

\* The comparison >= in place of >.
BetterOrEqual(sim, maxSimilarity) == ~Gt(maxSimilarity, sim)

\* The comparison that lets a candidate replace the running best.
Better(sim, maxSimilarity) == Gt(sim, maxSimilarity)

\* The loop over the candidates, from candidate k on.
RECURSIVE BestFrom(_, _, _, _, _)
BestFrom(customer, cands, k, bestMatch, maxSimilarity) ==
    IF k > Len(cands) THEN [bestMatch |-> bestMatch, maxSimilarity |-> maxSimilarity]
    ELSE LET sim == calculateSimilarity(customer, cands[k])
         IN  IF Better(sim, maxSimilarity)
             THEN BestFrom(customer, cands, k + 1, cands[k], sim)
             ELSE BestFrom(customer, cands, k + 1, bestMatch, maxSimilarity)

BestOf(customer, cands) == BestFrom(customer, cands, 1, <<>>, MinusOne)

\* The thresholds 0.85, 0.6 and 0.3: the doubles nearest to them.
HighThreshold   == FDiv(85, 100)
MediumThreshold == FDiv(6, 10)
LowThreshold    == FDiv(3, 10)

StatusOf(maxSimilarity) ==
    IF Gt(maxSimilarity, HighThreshold) THEN "High"
    ELSE IF Gt(maxSimilarity, MediumThreshold) THEN "Medium"
    ELSE IF Gt(maxSimilarity, LowThreshold) THEN "Low"
    ELSE "No Match"

\* similarity: parseFloat((maxSimilarity * 100).toFixed(2)), in hundredths.
SimilarityOf(maxSimilarity) == ToFixed2(Times100(maxSimilarity))

NA == <<"N", "/", "A">>

\* An emptiness test that never holds.
NeverEmptyCustomer(customer) == FALSE

\* !customer
IsEmptyCustomer(customer) == customer = <<>>

EmptyCustomerResult(originalRpl, i) ==
    [customer |-> <<>>, originalRpl |-> originalRpl, matchedRpl |-> NA,
     similarity |-> 0, status |-> "No Match", index |-> i]

MatchedResult(customer, originalRpl, cands, i) ==
    LET best == BestOf(customer, cands)
    IN  [customer |-> customer, originalRpl |-> originalRpl,
         matchedRpl |-> best.bestMatch,
         similarity |-> SimilarityOf(best.maxSimilarity),
         status |-> StatusOf(best.maxSimilarity), index |-> i]

\* Math.round(((i + 1) / data.length) * 100)
ProgressOf(i, n) == MathRound(Times100(FDiv(i + 1, n)))

\* The loop yields to the event loop after a record whose index is a
\* multiple of this.
YieldEvery == 100

\* ------------------------------------------------------------------ inputs

\* The rows a batch is made of: texts with and without padding, texts that
\* differ in case only, empty and missing values, numbers and booleans.
Row(c, r) == [customer |-> c, rpl |-> r]

Rows ==
    { Row(Text(<<"a", "b">>), Text(<<"a">>)),
      Row(Text(<<"a", "b">>), Text(<<"b">>)),
      Row(Text(<<"a", "b">>), Text(<<"a", " ">>)),
      Row(Text(<<"a", "b">>), Text(<<" ">>)),
      Row(Text(<<"A", " ">>), Text(<<"A">>)),
      Row(Text(<<" ">>), Text(<<"a">>)),
      Row(Null, Text(<<"b">>)),
      Row(Num(0), Null),
      Row(Bool(FALSE), Num(0)),
      Row(Num(7), Bool(TRUE)),
      Row(Text(<<>>), Text(<<>>)),
      Row(Text(<<"b">>), Bool(FALSE)) }

RECURSIVE SeqsUpTo(_, _)
SeqsUpTo(S, n) ==
    IF n = 0 THEN {<<>>}
    ELSE LET shorter == SeqsUpTo(S, n - 1)
         IN  shorter \cup {Append(q, x) : q \in {r \in shorter : Len(r) = n - 1}, x \in S}

Rep(c, n) == [k \in 1..n |-> c]

\* One record whose customer and reference have length len and differ in
\* their first d characters.
BoundaryBatch(d, len) ==
    <<[customer |-> Text(Rep("a", len)),
       rpl |-> Text(Rep("b", d) \o Rep("a", len - d))]>>

BoundaryBatches ==
    {BoundaryBatch(p[1], p[2]) :
        p \in {q \in (0..MaxBoundaryLen) \X (1..MaxBoundaryLen) : q[1] <= q[2]}}

Batches == SeqsUpTo(Rows, MaxRows) \cup BoundaryBatches

\* ------------------------------------------------------------------- state

VARIABLES
    pc,               \* where performFuzzyLookup is: idle, loop, yield, done
    data,             \* the rows it was called with
    uniqueRplValues,  \* the candidates
    i,                \* the loop index
    results,          \* the results pushed so far
    progressLog,      \* the values onProgress was called with, in order
    simCalls,         \* per processed record, the calculateSimilarity calls made
    returned,         \* the value the promise resolved with
    simArgs,          \* SpecSim: the two strings the string functions are applied to
    distResult,       \* SpecSim: the distances computed, <<>> before
    simResult,        \* SpecSim: the similarities computed, <<>> before
    rawData,          \* App: the rows loaded
    mapping,          \* App: the customer and the reference column chosen
    appResults,       \* App: the results state (results of the component)
    processing,       \* App: status, progress and message
    aiInsights,       \* App: the summary text
    filePc,           \* handleFileSelect: none, or reading (awaiting readExcelFile)
    lookupPc,         \* startLookup: none, lookup (awaiting performFuzzyLookup),
                      \* insights (awaiting getGeminiInsights)
    promptSamples,    \* getGeminiInsights: the matches last put into a prompt
    exported,         \* handleDownload: the exportData last written
    resultsSource     \* the rows the installed results were computed from

lookupVars == <<pc, data, uniqueRplValues, i, results, progressLog, simCalls, returned>>

simVars == <<simArgs, distResult, simResult>>

\* The state of the application but processing.
appVars == <<rawData, mapping, appResults, aiInsights, filePc, lookupPc,
             promptSamples, exported, resultsSource>>

vars == <<pc, data, uniqueRplValues, i, results, progressLog, simCalls, returned,
          simArgs, distResult, simResult,
          rawData, mapping, appResults, processing, aiInsights, filePc, lookupPc,
          promptSamples, exported, resultsSource>>

Processing(status, progress, message) ==
    [status |-> status, progress |-> progress, message |-> message]

NoMapping == [customer |-> "", rpl |-> ""]

\* The useState initial values of App, with no handler running.
AppInit ==
    /\ rawData = <<>>
    /\ mapping = NoMapping
    /\ appResults = <<>>
    /\ processing = Processing("idle", 0, "")
    /\ aiInsights = ""
    /\ filePc = "none"
    /\ lookupPc = "none"
    /\ promptSamples = <<>>
    /\ exported = <<>>
    /\ resultsSource = <<>>

Init ==
    /\ pc = "idle"
    /\ data = <<>>
    /\ uniqueRplValues = <<>>
    /\ i = 0
    /\ results = <<>>
    /\ progressLog = <<>>
    /\ simCalls = <<>>
    /\ returned = <<>>
    /\ simArgs = <<<<>>, <<>>>>
    /\ distResult = <<>>
    /\ simResult = <<>>
    /\ AppInit

\* Entering performFuzzyLookup with a batch: the lines up to the loop.  The
\* record of the call (progressLog, simCalls, returned) starts empty.
Enter(batch) ==
    /\ data' = batch
    /\ uniqueRplValues' = UniqueOf(RplValuesOf(batch))
    /\ pc' = "loop"
    /\ i' = 0
    /\ results' = <<>>
    /\ progressLog' = <<>>
    /\ simCalls' = <<>>
    /\ returned' = <<>>

\* The call with any batch.
Call ==
    /\ pc = "idle"
    /\ \E batch \in Batches : Enter(batch)
    /\ UNCHANGED <<simVars, appVars, processing>>

\* One iteration for a record whose customer is empty: push and continue.
SkipEmptyCustomer ==
    /\ pc = "loop"
    /\ i < Len(data)
    /\ LET customer    == CoerceField(data[i + 1].customer)
           originalRpl == CoerceField(data[i + 1].rpl)
       IN  /\ IsEmptyCustomer(customer)
           /\ results' = Append(results, EmptyCustomerResult(originalRpl, i))
    /\ simCalls' = Append(simCalls, 0)
    /\ i' = i + 1
    /\ UNCHANGED <<pc, data, uniqueRplValues, progressLog, returned, simVars,
                   appVars, processing>>

\* One iteration for a record with a customer: match, push, report, and
\* yield when the index asks for it.
MatchRecord ==
    /\ pc = "loop"
    /\ i < Len(data)
    /\ LET customer    == CoerceField(data[i + 1].customer)
           originalRpl == CoerceField(data[i + 1].rpl)
       IN  /\ ~IsEmptyCustomer(customer)
           /\ results' = Append(results,
                                MatchedResult(customer, originalRpl, uniqueRplValues, i))
    /\ simCalls' = Append(simCalls, Len(uniqueRplValues))
    /\ progressLog' = Append(progressLog, ProgressOf(i, Len(data)))
    /\ processing' = [processing EXCEPT !.progress = ProgressOf(i, Len(data))]
    /\ pc' = IF i % YieldEvery = 0 THEN "yield" ELSE "loop"
    /\ i' = i + 1
    /\ UNCHANGED <<data, uniqueRplValues, returned, simVars, appVars>>

\* The timer of the yield fires.
Resume ==
    /\ pc = "yield"
    /\ pc' = "loop"
    /\ UNCHANGED <<data, uniqueRplValues, i, results, progressLog, simCalls, returned,
                   simVars, appVars, processing>>

\* The loop is over: return results.
Return ==
    /\ pc = "loop"
    /\ i >= Len(data)
    /\ pc' = "done"
    /\ returned' = results
    /\ UNCHANGED <<data, uniqueRplValues, i, results, progressLog, simCalls, simVars,
                   appVars, processing>>

Next ==
    \/ Call
    \/ SkipEmptyCustomer
    \/ MatchRecord
    \/ Resume
    \/ Return

Spec == Init /\ [][Next]_vars

\* ------------------------------------------- the string functions on their own

\* All strings over Chars of length at most MaxStrLen.
Strings == SeqsUpTo(Chars, MaxStrLen)

InitSim ==
    /\ pc = "sim"
    /\ data = <<>>
    /\ uniqueRplValues = <<>>
    /\ i = 0
    /\ results = <<>>
    /\ progressLog = <<>>
    /\ simCalls = <<>>
    /\ returned = <<>>
    /\ simArgs \in Strings \X Strings
    /\ distResult = <<>>
    /\ simResult = <<>>
    /\ AppInit

\* getLevenshteinDistance applied to (a, b), (b, a), (a, a) and (b, b).
ApplyDistance ==
    /\ pc = "sim"
    /\ distResult = <<>>
    /\ LET a == simArgs[1]
           b == simArgs[2]
       IN  distResult' = << getLevenshteinDistance(a, b), getLevenshteinDistance(b, a),
                            getLevenshteinDistance(a, a), getLevenshteinDistance(b, b) >>
    /\ UNCHANGED <<lookupVars, simArgs, simResult, appVars, processing>>

\* calculateSimilarity applied to (a, b), (b, a), (a, a) and (b, b).
ApplySimilarity ==
    /\ pc = "sim"
    /\ simResult = <<>>
    /\ LET a == simArgs[1]
           b == simArgs[2]
       IN  simResult' = << calculateSimilarity(a, b), calculateSimilarity(b, a),
                           calculateSimilarity(a, a), calculateSimilarity(b, b) >>
    /\ UNCHANGED <<lookupVars, simArgs, distResult, appVars, processing>>

NextSim ==
    \/ ApplyDistance
    \/ ApplySimilarity

SpecSim == InitSim /\ [][NextSim]_vars

\* ------------------------------------------------------------ the application

\* The rows of the files: a Medium, two Low, a High, a Medium, two Low and an
\* empty customer, then the same again.
FilePattern ==
    << Row(Text(<<"a", "a", "b">>), Text(<<"a", "b">>)),
       Row(Text(<<"b">>), Text(<<" ">>)),
       Row(Text(<<"a">>), Text(<<"a", "b", " ">>)),
       Row(Text(<<"A", "B">>), Text(<<"a", "b">>)),
       Row(Text(<<"a", "a", "b">>), Text(<<"a", "b">>)),
       Row(Text(<<"b">>), Null),
       Row(Text(<<"a">>), Text(<<"a", "b">>)),
       Row(Text(<<" ">>), Text(<<"a", "b">>)) >>

FileRow(k) == FilePattern[((k - 1) % Len(FilePattern)) + 1]

RECURSIVE FileOf(_)
FileOf(n) == IF n = 0 THEN <<>> ELSE Append(FileOf(n - 1), FileRow(n))

\* What readExcelFile resolves with: no row, the first two rows or the first
\* MaxFileRows rows of the pattern, or two rows the first of which has no
\* customer.
Files == {FileOf(0), FileOf(2), FileOf(MaxFileRows), <<FileRow(8), FileRow(1)>>}

\* No user event and no timer or network callback runs inside a synchronous
\* stretch of performFuzzyLookup or between its return and the continuation
\* of startLookup.
EventLoopFree == pc \in {"idle", "yield"}

\* handleFileSelect up to the await.
BeginFileSelect ==
    /\ processing' = Processing("processing", 0, "Reading file...")
    /\ filePc' = "reading"
    /\ UNCHANGED <<lookupVars, simVars, rawData, mapping, appResults, aiInsights,
                   lookupPc, promptSamples, exported, resultsSource>>

\* A file is picked in the file input: FileUpload is rendered while rawData is
\* empty and its input is disabled while the status is processing.
SelectFile ==
    /\ EventLoopFree
    /\ rawData = <<>>
    /\ processing.status # "processing"
    /\ filePc = "none"
    /\ BeginFileSelect

\* A file is dropped on FileUpload: handleDrop does not look at disabled.
DropFile ==
    /\ EventLoopFree
    /\ rawData = <<>>
    /\ filePc = "none"
    /\ BeginFileSelect

\* readExcelFile resolves: with rows the data, the mapping and the idle status
\* are set; with no row nothing is set.
FileLoaded ==
    /\ EventLoopFree
    /\ filePc = "reading"
    /\ filePc' = "none"
    /\ \E file \in Files :
          IF Len(file) > 0
          THEN /\ rawData' = file
               /\ mapping' = [customer |-> "customer", rpl |-> "rpl"]
               /\ processing' = Processing("idle", 0, "")
          ELSE UNCHANGED <<rawData, mapping, processing>>
    /\ UNCHANGED <<lookupVars, simVars, appResults, aiInsights, lookupPc,
                   promptSamples, exported, resultsSource>>

\* readExcelFile rejects.
FileFailed ==
    /\ EventLoopFree
    /\ filePc = "reading"
    /\ filePc' = "none"
    /\ processing' = Processing("error", 0, "Error reading file.")
    /\ UNCHANGED <<lookupVars, simVars, rawData, mapping, appResults, aiInsights,
                   lookupPc, promptSamples, exported, resultsSource>>

\* Start Fuzzy Lookup is clicked: the button is rendered while rawData is not
\* empty and results is empty, and disabled while the status is processing.
\* One startLookup runs at a time.
StartLookup ==
    /\ pc = "idle"
    /\ lookupPc = "none"
    /\ rawData # <<>>
    /\ appResults = <<>>
    /\ processing.status # "processing"
    /\ mapping.customer # "" /\ mapping.rpl # ""
    /\ processing' = Processing("processing", 0, "Performing fuzzy lookup...")
    /\ Enter(rawData)
    /\ lookupPc' = "lookup"
    /\ UNCHANGED <<simVars, rawData, mapping, appResults, aiInsights, filePc,
                   promptSamples, exported, resultsSource>>

\* The number of matches put into the prompt at most.
MaxSamples == 5

IsLowOrMedium(m) == m.status \in {"Low", "Medium"}

LowMatches(matches) ==
    LET low == SelectSeq(matches, IsLowOrMedium)
    IN  SubSeq(low, 1, IF Len(low) < MaxSamples THEN Len(low) ELSE MaxSamples)

FallbackText == "AI insights currently unavailable."

DefaultText == "Analysis complete. No significant patterns detected."

\* getGeminiInsights that lets the error of the call out.
getGeminiInsightsUncaught(outcome) ==
    CASE outcome = "text"  -> [threw |-> FALSE, text |-> "summary"]
      [] outcome = "empty" -> [threw |-> FALSE, text |-> DefaultText]
      [] OTHER             -> [threw |-> TRUE, text |-> ""]

\* What getGeminiInsights gives for an outcome of the external call: a text,
\* an empty text, an error of the call, an error of the constructor.
getGeminiInsights(outcome) ==
    CASE outcome = "text"  -> [threw |-> FALSE, text |-> "summary"]
      [] outcome = "empty" -> [threw |-> FALSE, text |-> DefaultText]
      [] OTHER             -> [threw |-> FALSE, text |-> FallbackText]

\* The end of startLookup: setAiInsights, or the catch.
Settle(insights, proc) ==
    IF insights.threw
    THEN /\ processing' = Processing("error", 0, "Error during matching process.")
         /\ UNCHANGED aiInsights
    ELSE /\ aiInsights' = insights.text
         /\ processing' = proc

\* performFuzzyLookup has returned: startLookup installs the results, sets
\* the completed status and calls getGeminiInsights, which builds the prompt
\* and awaits the external call unless the constructor throws.  The locals of
\* the finished call are gone.
LookupResolved ==
    /\ pc = "done"
    /\ lookupPc = "lookup"
    /\ pc' = "idle"
    /\ appResults' = returned
    /\ resultsSource' = data
    /\ data' = <<>>
    /\ uniqueRplValues' = <<>>
    /\ i' = 0
    /\ results' = <<>>
    /\ progressLog' = <<>>
    /\ simCalls' = <<>>
    /\ returned' = <<>>
    /\ LET proc == Processing("completed", 100, "Generating AI analysis...")
       IN  \/ /\ promptSamples' = LowMatches(returned)
              /\ lookupPc' = "insights"
              /\ processing' = proc
              /\ UNCHANGED aiInsights
           \/ /\ lookupPc' = "none"
              /\ Settle(getGeminiInsights("constructor"), proc)
              /\ UNCHANGED promptSamples
    /\ UNCHANGED <<simVars, rawData, mapping, filePc, exported>>

\* The external call settles.
InsightsReturn ==
    /\ EventLoopFree
    /\ lookupPc = "insights"
    /\ lookupPc' = "none"
    /\ \E outcome \in {"text", "empty", "error"} :
          Settle(getGeminiInsights(outcome), processing)
    /\ UNCHANGED <<lookupVars, simVars, rawData, mapping, appResults, filePc,
                   promptSamples, exported, resultsSource>>

\* ...rawData[res.index]: the row, or no field when there is no such row.
RowAt(rows, index) ==
    IF index + 1 <= Len(rows) THEN rows[index + 1] ELSE Row(Null, Null)

ExportData(res, rows) ==
    [k \in 1..Len(res) |-> [row |-> RowAt(rows, res[k].index), result |-> res[k]]]

\* Download Excel Result is clicked: the button is rendered while rawData and
\* results are not empty.
handleDownload ==
    /\ EventLoopFree
    /\ rawData # <<>>
    /\ appResults # <<>>
    /\ exported' = ExportData(appResults, rawData)
    /\ UNCHANGED <<lookupVars, simVars, rawData, mapping, appResults, processing,
                   aiInsights, filePc, lookupPc, promptSamples, resultsSource>>

\* Clear All is clicked: the button is rendered while rawData is not empty.
reset ==
    /\ EventLoopFree
    /\ rawData # <<>>
    /\ rawData' = <<>>
    /\ appResults' = <<>>
    /\ processing' = Processing("idle", 0, "")
    /\ aiInsights' = ""
    /\ resultsSource' = <<>>
    /\ UNCHANGED <<lookupVars, simVars, mapping, filePc, lookupPc, promptSamples,
                   exported>>

NextApp ==
    \/ SelectFile
    \/ DropFile
    \/ FileLoaded
    \/ FileFailed
    \/ StartLookup
    \/ SkipEmptyCustomer
    \/ MatchRecord
    \/ Resume
    \/ Return
    \/ LookupResolved
    \/ InsightsReturn
    \/ handleDownload
    \/ reset

SpecApp == Init /\ [][NextApp]_vars

\* ------------------------------------------------------------------ claims

\* The text representation of a row value: a text is itself, a number its
\* decimal digits, a boolean "true" or "false", and no value the empty text.
TextOf(v) ==
    CASE v.kind = "text"    -> v.text
      [] v.kind = "number"  -> Digits(v.num)
      [] v.kind = "boolean" -> IF v.bool THEN <<"t", "r", "u", "e">>
                               ELSE <<"f", "a", "l", "s", "e">>
      [] OTHER              -> <<>>

TrimmedText(v) == Trim(TextOf(v))

NonText(v) == v.kind \in {"number", "boolean"}

\* round(100 * k / n) in exact arithmetic.
RoundPercent(k, n) == (200 * k + n) \div (2 * n)

\* C1: for a batch of N >= 1 records, onProgress is invoked exactly once per
\* record and the values reported are round(100*1/N), ..., round(100*N/N),
\* also when records have an empty customer.
C1_ProgressOncePerRecord ==
    (pc = "done" /\ Len(data) >= 1) =>
        /\ Len(progressLog) = Len(data)
        /\ \A k \in 1..Len(progressLog) : progressLog[k] = RoundPercent(k, Len(data))

\* C2: when every reference value is empty after coercion and trimming, every
\* record resolves to similarity 0, tier "No Match" and matched value "N/A".
C2_NoCandidateSentinel ==
    (pc = "done" /\ \A k \in 1..Len(data) : TrimmedText(data[k].rpl) = <<>>) =>
        \A k \in 1..Len(returned) :
            /\ returned[k].similarity = 0
            /\ returned[k].status = "No Match"
            /\ returned[k].matchedRpl = NA

\* C3: every number and every boolean is matched as its text representation:
\* such a value in the reference field is a candidate, and a record with such
\* a customer is matched under that text, not skipped as an empty customer.
C3_CoercedToText ==
    /\ pc # "idle" =>
          \A k \in 1..Len(data) :
              NonText(data[k].rpl) => InSeq(TextOf(data[k].rpl), uniqueRplValues)
    /\ \A k \in 1..Len(results) :
          NonText(data[k].customer) =>
              /\ results[k].customer = TextOf(data[k].customer)
              /\ results[k].matchedRpl # NA

\* The tier of a two-decimal percentage (in hundredths), strict lower bounds.
TierOfPercent(p) ==
    IF p > 8500 THEN "High"
    ELSE IF p > 6000 THEN "Medium"
    ELSE IF p > 3000 THEN "Low"
    ELSE "No Match"

\* C4: in every result the tier agrees with the reported percentage: High iff
\* percent > 85, Medium iff 60 < percent <= 85, Low iff 30 < percent <= 60,
\* otherwise No Match.
C4_TierAgreesWithPercent ==
    \A k \in 1..Len(results) :
        results[k].status = TierOfPercent(results[k].similarity)

\* C5: a record whose customer is empty after coercion and trimming gets
\* matched value "N/A", similarity 0 and tier "No Match" whatever the
\* candidates are, and no similarity is computed for it.
C5_EmptyCustomerSentinel ==
    \A k \in 1..Len(results) :
        TrimmedText(data[k].customer) = <<>> =>
            /\ results[k].matchedRpl = NA
            /\ results[k].similarity = 0
            /\ results[k].status = "No Match"
            /\ simCalls[k] = 0

\* C5 witness: a finished batch with candidates and a record whose customer
\* is empty, resolved to the sentinel.
C5_Witness ==
    /\ pc = "done"
    /\ Len(uniqueRplValues) > 0
    /\ \E k \in 1..Len(returned) :
          /\ TrimmedText(data[k].customer) = <<>>
          /\ returned[k].matchedRpl = NA
          /\ simCalls[k] = 0

\* C6: the call returns one result per record in input order: result k has
\* index k (zero-based), the trimmed customer text and the trimmed reference
\* text of record k.
C6_OneResultPerRecord ==
    pc = "done" =>
        /\ Len(returned) = Len(data)
        /\ \A k \in 1..Len(returned) :
              /\ returned[k].index = k - 1
              /\ returned[k].customer = TrimmedText(data[k].customer)
              /\ returned[k].originalRpl = TrimmedText(data[k].rpl)

\* The similarities of a query to the candidates, in candidate order.
RECURSIVE SimsFrom(_, _, _)
SimsFrom(query, cands, acc) ==
    IF Len(acc) = Len(cands) THEN acc
    ELSE SimsFrom(query, cands,
                  Append(acc, calculateSimilarity(query, cands[Len(acc) + 1])))

FirstBest(matched, cands, sims) ==
    \E j \in 1..Len(cands) :
        /\ matched = cands[j]
        /\ \A m \in 1..Len(cands) : ~Gt(sims[m], sims[j])
        /\ \A m \in 1..(j - 1) : Gt(sims[j], sims[m])

\* C7: for a non-empty query and a non-empty candidate set, the matched value
\* is a candidate of maximal similarity, and the first such in candidate order.
C7_FirstBestCandidate ==
    pc = "done" =>
        \A k \in 1..Len(returned) :
            (returned[k].customer # <<>> /\ uniqueRplValues # <<>>) =>
                FirstBest(returned[k].matchedRpl, uniqueRplValues,
                          SimsFrom(returned[k].customer, uniqueRplValues, <<>>))

\* C7 witness: a finished batch in which two candidates tie at the maximum
\* for a record and the earlier one is the matched value.
C7_Witness ==
    /\ pc = "done"
    /\ \E k \in 1..Len(returned) :
          /\ returned[k].customer # <<>>
          /\ \E j, m \in 1..Len(uniqueRplValues) :
                /\ j < m
                /\ returned[k].matchedRpl = uniqueRplValues[j]
                /\ calculateSimilarity(returned[k].customer, uniqueRplValues[j])
                     = calculateSimilarity(returned[k].customer, uniqueRplValues[m])

\* C8: the edit distance and the similarity are symmetric, a string is at
\* distance 0 from and of similarity 1 to itself, and two strings that differ
\* only in letter case (or are both empty) have similarity 1.
C8_SymmetryAndIdentity ==
    /\ distResult # <<>> =>
          /\ distResult[1] = distResult[2]
          /\ distResult[3] = 0
          /\ distResult[4] = 0
    /\ simResult # <<>> =>
          /\ simResult[1] = simResult[2]
          /\ simResult[3] = DblOfNat(1)
          /\ simResult[4] = DblOfNat(1)
          /\ ToLowerCase(simArgs[1]) = ToLowerCase(simArgs[2]) => simResult[1] = DblOfNat(1)

\* C8 witness: both functions applied to two different strings that differ
\* only in letter case.
C8_Witness ==
    /\ distResult # <<>>
    /\ simResult # <<>>
    /\ simArgs[1] # simArgs[2]
    /\ ToLowerCase(simArgs[1]) = ToLowerCase(simArgs[2])
    /\ simResult[1] = DblOfNat(1)

\* The results of a batch matched against a given list of candidates.
ResultAgainst(row, cands, k) ==
    LET customer    == CoerceField(row.customer)
        originalRpl == CoerceField(row.rpl)
    IN  IF IsEmptyCustomer(customer) THEN EmptyCustomerResult(originalRpl, k)
        ELSE MatchedResult(customer, originalRpl, cands, k)

\* C9: matching against the deduplicated candidates gives the same results as
\* matching against all trimmed non-empty reference values, duplicates kept
\* in row order.
C9_DedupDoesNotChangeResults ==
    pc = "done" =>
        \A k \in 1..Len(returned) :
            returned[k] = ResultAgainst(data[k], RplValuesOf(data), k - 1)

\* C9 witness: a finished batch whose reference values repeat, with another
\* value between the repetitions, and a record that was matched.
C9_Witness ==
    /\ pc = "done"
    /\ \E k \in 1..Len(returned) : returned[k].customer # <<>>
    /\ LET all == RplValuesOf(data)
       IN  \E a, b, c \in 1..Len(all) :
               a < b /\ b < c /\ all[a] = all[c] /\ all[a] # all[b]

\* The distinct trimmed non-empty texts of the reference values, ordered by
\* first occurrence.
RECURSIVE DistinctTexts(_, _)
DistinctTexts(rows, acc) ==
    IF Len(rows) = 0 THEN acc
    ELSE LET t == TrimmedText(rows[1].rpl)
         IN  DistinctTexts(Tail(rows),
                           IF t = <<>> \/ InSeq(t, acc) THEN acc ELSE Append(acc, t))

\* C10: the candidate set is exactly the distinct trimmed non-empty reference
\* values in order of first occurrence, in every state of the processing.
C10_CandidateSetExact ==
    pc \in {"loop", "yield", "done"} => uniqueRplValues = DistinctTexts(data, <<>>)

\* The texts getGeminiInsights can give: the text of the response, the text
\* for a response without text, the fallback.
InsightTexts == {"summary", DefaultText, FallbackText}

\* A step in which the getGeminiInsights call of startLookup ends.
SummaryEnds == lookupPc # "none" /\ lookupPc' = "none"

\* C11: a failure of the summary never fails the batch.  Whenever the summary
\* call of startLookup ends, with a text or with a failure, a text is
\* installed as the insights and the summary sets no error status: when it
\* ends at once, the results the lookup returned are installed and the status
\* is completed; when it ends later, the results and the status, completed
\* unless the user cleared them meanwhile, stay as they were.  The summary is given Low and Medium results only, at most 5.
C11_SummaryFailureKeepsBatch ==
    /\ [][SummaryEnds =>
            /\ aiInsights' \in InsightTexts
            /\ IF lookupPc = "lookup"
               THEN /\ appResults' = returned
                    /\ processing'.status = "completed"
               ELSE /\ appResults' = appResults
                    /\ processing' = processing]_vars
    /\ [](/\ Len(promptSamples) <= MaxSamples
          /\ \A k \in 1..Len(promptSamples) :
                promptSamples[k].status \in {"Low", "Medium"})

\* C11 witness: the summary call has failed after a lookup with more than 5
\* Low or Medium results of which 5 were given to it; the status is completed
\* and the results are installed.
C11_Witness ==
    /\ lookupPc = "none"
    /\ aiInsights = FallbackText
    /\ processing.status = "completed"
    /\ appResults # <<>>
    /\ Len(SelectSeq(appResults, IsLowOrMedium)) > MaxSamples
    /\ promptSamples = LowMatches(appResults)
    /\ Len(promptSamples) = MaxSamples

\* C12: in every reachable state a non-empty results list was computed from
\* the rawData now loaded; no progress update of a lookup outlives a Clear
\* All, so an idle status has progress 0; and every exported line joins a
\* result with the row it was computed from.
C12_ResultsBelongToRawData ==
    /\ appResults # <<>> => resultsSource = rawData
    /\ processing.status = "idle" => processing.progress = 0
    /\ \A k \in 1..Len(exported) :
          exported[k].result.customer = CoerceField(exported[k].row.customer)

\* C13: every file selection leaves the processing status.  Once
\* handleFileSelect has finished, whatever the read returned, and no lookup
\* is running, the status is not processing: the file input is enabled.
C13_FileSelectLeavesProcessing ==
    (filePc = "none" /\ lookupPc # "lookup") => processing.status # "processing"
====
